---- MODULE Spec2Model ----
(***************************************************************************)
(* A model of the Go binding bobappleyard/readline (src/readline.go).      *)
(*                                                                         *)
(* Text is a sequence of byte values.  A C pointer to a string is a        *)
(* sequence of length 0 (the null pointer) or 1 (a pointer to the bytes up *)
(* to the terminating NUL).  The native library (GNU Readline/History) is  *)
(* the environment: what readline() returns and what the Completer hook    *)
(* returns are chosen nondeterministically from small sets; the history    *)
(* primitives are modelled by what the library does with its list.         *)
(*                                                                         *)
(* The package has parts that share no state: the line reader with String *)
(* (SpecReader, SpecReaderErr, SpecString), the history adapter            *)
(* (SpecHistory), the completion bridge (SpecCompletion), EscapePrompt     *)
(* (SpecEscape) and the two goroutines of ExampleCleanup (SpecExample).    *)
(* Each has its own specification; Spec is their composition.              *)
(*                                                                         *)
(* A call that reaches the native readline() waits there for the line: it  *)
(* is two steps, the entry (which initialises the library) and the return, *)
(* and rl holds the call in progress.  Between them readline calls the     *)
(* completion hook and lets the user edit recalled history lines.          *)
(***************************************************************************)
EXTENDS Integers, Sequences, FiniteSets, TLC

VARIABLES
    Prompt,        \* package variable Prompt
    Continue,      \* package variable Continue
    rbuf,          \* reader.buf
    rstate,        \* reader.state
    rlast,         \* what the last reader.Read call was given and returned
    nReads,        \* number of Read calls made on the reader
    nOkReads,      \* number of Read calls that returned a nil error
    nOkFetch,      \* number of line fetches of the reader that returned a line
    allBig,        \* every Read so far had room for its fetched line plus one byte
    pending,       \* the bytes of the lines fetched so far that no Read has handed out yet
    streamOk,      \* every successful Read so far handed out the front of pending
    slast,         \* what the last direct String call was given and returned
    rl,            \* the call of the native readline() in progress, if any
    the_history,   \* the native history list (libhistory), oldest entry first
    hfile,         \* the history file: NULL while it does not exist, else <<bytes>>
    hlast,         \* what the last history call was given and returned
    expSize,       \* AddHistory calls not repeating the then-last entry, since the history was empty
    onlyAdds,      \* the history has been built by AddHistory alone since it was empty
    rt,            \* progress of a save, clear, load sequence and the history saved
    entries,       \* package variable entries: the cached candidates, as C strings
    owner,         \* who holds the string behind each pointer of entries
    heap,          \* "ok", or "undefined" once a freed or doubly held string was handed over
    suppress_append, \* native rl_completion_suppress_append
    word_breaks,   \* native rl_completer_word_break_characters, a C pointer
    clast,         \* what the last _completion_function call was given and returned
    curEs,         \* what the Completer returned on the last index-0 call
    reqInvokes,    \* Completer invocations since the last index-0 call began
    reqNext,       \* the index that continues the request in order; -1 once out of order
    prevEs,        \* what the Completer returned on the index-0 call before the last one
    elast,         \* what the last EscapePrompt call was given and returned
    mpc,           \* ExampleCleanup: where the main goroutine is
    wpc,           \* ExampleCleanup: where the worker goroutine is
    wdone,         \* ExampleCleanup: statements the worker has run after String returned
    wres,          \* ExampleCleanup: what String returned to the worker
    notified,      \* ExampleCleanup: signal.Notify has registered the sigint channel
    CatchSigint,   \* package variable CatchSigint, as the example assigns it
    sigint,        \* ExampleCleanup: signals held by the sigint channel (capacity 1)
    done,          \* ExampleCleanup: the done channel is closed
    lineVar,       \* ExampleCleanup: the variable line
    errVar,        \* ExampleCleanup: the variable err
    seen,          \* ExampleCleanup: the line and err the main goroutine printed, if any
    calls,         \* ExampleCleanup: the calls into the package so far, in order
    exitCode       \* ExampleCleanup: the status os.Exit was given; -1 while running

readerVars == <<Prompt, Continue, rbuf, rstate, rlast, nReads, nOkReads, nOkFetch, allBig,
               pending, streamOk, slast, rl>>

lineVars == <<Prompt, Continue, rbuf, rstate, rlast, nReads, nOkReads, nOkFetch, allBig,
             pending, streamOk>>

historyVars == <<the_history, hfile, hlast, expSize, onlyAdds, rt>>

hookVars == <<entries, owner, heap, suppress_append, clast, curEs, reqInvokes, reqNext, prevEs>>

completionVars == <<hookVars, word_breaks>>

exampleVars == <<mpc, wpc, wdone, wres, notified, CatchSigint, sigint, done, lineVar, errVar, seen,
                calls, exitCode>>

vars == <<readerVars, historyVars, completionVars, elast, exampleVars>>

----------------------------------------------------------------------------
(* Bounds *)

MaxLineLen == 2     \* longest line the native readline returns
MaxBuf     == 3     \* longest caller buffer handed to Read
MaxReads   == 4     \* Read calls made on one reader
MaxPrompt  == 2     \* longest prompt handed to String directly
MaxHist    == 3     \* most entries the history holds
MaxCands   == 2     \* most candidates the Completer returns
MaxIndex   == 3     \* largest index the native side passes to _completion_function
MaxPieces  == 4     \* most pieces a generated EscapePrompt argument is made of

----------------------------------------------------------------------------
(* Values *)

readerStart    == 0
readerContinue == 1
readerEnd      == 2

nil == "nil"
EOF == "io.EOF"

NULL == <<>>

\* The bytes of s a C function sees: those before the first NUL byte.
UpToNul(s) ==
    LET nuls == {i \in 1..Len(s) : s[i] = 0}
    IN  IF nuls = {} THEN s
        ELSE SubSeq(s, 1, (CHOOSE i \in nuls : \A j \in nuls : i <= j) - 1)

\* C.CString: a fresh NUL-terminated copy of the Go string.
CString(s) == <<UpToNul(s)>>

\* C.GoString: a Go copy of the C string; the empty string for a null pointer.
GoString(p) == IF p = NULL THEN <<>> ELSE p[1]

\* The lines the native readline can hand back, and end of input (NULL).
LineBytes == {97, 98}
NativeLines == UNION {[1..n -> LineBytes] : n \in 0..MaxLineLen}
NativeReturns == {NULL} \cup {<<l>> : l \in NativeLines}

\* Values the caller assigns to Prompt and to Continue.
PrimaryChoices  == {<<62, 32>>, <<36, 0, 32>>}
ContinueChoices == {<<46, 46>>, <<46>>}

\* Prompts a caller hands to String directly.
PromptBytes == {0, 32, 62}
PromptArgs == UNION {[1..n -> PromptBytes] : n \in 0..MaxPrompt}

\* The prompt ExampleCleanup hands to String: "> ".
ExamplePromptArg == <<62, 32>>

----------------------------------------------------------------------------
(* Single-line read and the line reader *)

\* String with the end-of-input test dropped.
String_NoEOF(prompt, rp) ==
    [s |-> GoString(rp), err |-> nil, p |-> CString(prompt), prompt |-> prompt]

\* String: prompt is the argument, rp the pointer C.readline returns for it.
\* p is the C copy of the prompt handed to readline; prompt is the argument
\* as the caller holds it when String returns.
String(prompt, rp) ==
    LET p == CString(prompt)
        s == GoString(rp)
    IN  IF rp # NULL
        THEN [s |-> s, err |-> nil, p |-> p, prompt |-> prompt]
        ELSE [s |-> s, err |-> EOF, p |-> p, prompt |-> prompt]

\* String releasing the prompt copy only when a line came back.
StringMem_LeakOnEOF(prompt, rp) ==
    IF rp # NULL
    THEN << <<"malloc", "p">>, <<"read", "p">>, <<"malloc", "rp">>, <<"copy", "rp">>,
            <<"free", "p">>, <<"free", "rp">> >>
    ELSE << <<"malloc", "p">>, <<"read", "p">> >>

\* String: what it does to native memory, in program order.  "p" is the
\* prompt copy C.CString allocates and readline reads; "rp" is the line
\* readline allocates when it returns one, which C.GoString copies.
StringMem(prompt, rp) ==
    << <<"malloc", "p">>, <<"read", "p">> >>
    \o (IF rp # NULL THEN << <<"malloc", "rp">>, <<"copy", "rp">> >> ELSE << >>)
    \o << <<"free", "p">> >>
    \o (IF rp # NULL THEN << <<"free", "rp">> >> ELSE << >>)

\* getLine with the continuation test dropped.
getLinePrompt_AlwaysPrimary(state) == Prompt

\* reader.getLine: the prompt of the fetch.
getLinePrompt(state) ==
    IF state = readerContinue THEN Continue ELSE Prompt

\* reader.getLine after its call of String returned r: buf is r.buf before
\* the call, the result holds r.buf after.
getLineReturn(buf, r) ==
    IF r.err # nil
    THEN [buf |-> buf, err |-> r.err, p |-> r.p]
    ELSE [buf |-> r.s, err |-> nil, p |-> r.p]

\* reader.getLine: buf is r.buf before the call, the result holds r.buf after.
getLine(buf, state, rp) == getLineReturn(buf, String(getLinePrompt(state), rp))

\* Read discarding the bytes that do not fit the caller's buffer.
copyOut_DropRest(buf, k) ==
    LET l == IF k > Len(buf) THEN Len(buf) ELSE k
    IN  [n |-> l, data |-> SubSeq(buf, 1, l), buf |-> <<>>]

\* Read leaving the copied bytes in r.buf.
copyOut_KeepAll(buf, k) ==
    LET l == IF k > Len(buf) THEN Len(buf) ELSE k
    IN  [n |-> l, data |-> SubSeq(buf, 1, l), buf |-> buf]

\* Read moving to readerEnd on every fetch error.
stateAfterFetch_EndOnAnyError(state, err) ==
    IF err # nil THEN readerEnd ELSE readerContinue

\* Read with the transition to readerEnd dropped.
stateAfterFetch_NoEnd(state, err) ==
    IF err # nil THEN state ELSE readerContinue

\* reader.Read: r.state after a fetch that returned err.
stateAfterFetch(state, err) ==
    IF err = EOF THEN readerEnd
    ELSE IF err # nil THEN state
    ELSE readerContinue

\* reader.Read: copy into a caller buffer of length k and keep the rest.
copyOut(buf, k) ==
    LET l == IF k > Len(buf) THEN Len(buf) ELSE k
    IN  [n |-> l, data |-> SubSeq(buf, 1, l), buf |-> SubSeq(buf, l + 1, Len(buf))]

\* reader.Read after its call of getLine returned g: the state change, the
\* early return on an error, the copy otherwise.
ReadAfterFetch(state, k, g) ==
    LET c == copyOut(g.buf, k)
    IN  IF g.err # nil
        THEN [buf |-> g.buf, state |-> stateAfterFetch(state, g.err), n |-> 0,
              err |-> g.err, data |-> <<>>, fetched |-> TRUE, p |-> g.p]
        ELSE [buf |-> c.buf, state |-> stateAfterFetch(state, g.err), n |-> c.n,
              err |-> nil, data |-> c.data, fetched |-> TRUE, p |-> g.p]

\* reader.Read on a reader (buf, state) with a caller buffer of length k;
\* rp is what readline returns if this call fetches a line.
ReadResult(buf, state, k, rp) ==
    IF state = readerEnd
    THEN [buf |-> buf, state |-> state, n |-> 0, err |-> EOF, data |-> <<>>,
          fetched |-> FALSE, p |-> NULL]
    ELSE IF Len(buf) = 0
    THEN ReadAfterFetch(state, k, getLine(buf, state, rp))
    ELSE LET c == copyOut(buf, k)
         IN  [buf |-> c.buf, state |-> state, n |-> c.n, err |-> nil, data |-> c.data,
              fetched |-> FALSE, p |-> NULL]

NoCall == [op |-> "none"]

\* NewReader, and the package variables as the package sets them.
InitReader ==
    /\ Prompt = <<62, 32>>
    /\ Continue = <<46, 46>>
    /\ rbuf = <<>>
    /\ rstate = readerStart
    /\ rlast = NoCall
    /\ nReads = 0
    /\ nOkReads = 0
    /\ nOkFetch = 0
    /\ allBig = TRUE
    /\ pending = <<>>
    /\ streamOk = TRUE
    /\ slast = NoCall
    /\ rl = NoCall

\* rl_completer_word_break_characters as readline sets it when it finds it
\* null: " \t\n\"\\'`@$><=;|&{(".
DefaultWordBreaks == <<32, 9, 10, 34, 92, 39, 96, 64, 36, 62, 60, 61, 59, 124, 38, 123, 40>>

\* The native readline() on entry: the first call initialises the library,
\* which gives the word-break characters their default when none are set.
\* wb is rl_completer_word_break_characters before the call.
rl_initialize(wb) == IF wb = NULL THEN <<DefaultWordBreaks>> ELSE wb

\* The bookkeeping of a Read that completes: r is what it returns and
\* leaves, line tells whether it fetched a line, got the line's bytes.
ReadDone(k, r, line, got, rp, primary, continue) ==
    /\ rbuf' = r.buf
    /\ rstate' = r.state
    /\ rlast' = [op |-> "Read", k |-> k, n |-> r.n, err |-> r.err, data |-> r.data,
                 fetched |-> r.fetched, p |-> r.p, rp |-> rp,
                 okFetch0 |-> nOkFetch, primary |-> primary, continue |-> continue,
                 state0 |-> rstate, buf0 |-> rbuf]
    /\ nReads' = nReads + 1
    /\ nOkReads' = IF r.err = nil THEN nOkReads + 1 ELSE nOkReads
    /\ nOkFetch' = IF line THEN nOkFetch + 1 ELSE nOkFetch
    /\ allBig' = /\ allBig
                 /\ line => k >= Len(got) + 1
                 /\ (~r.fetched /\ rstate # readerEnd) => k >= Len(rbuf)
    /\ LET all == IF line THEN pending \o got ELSE pending
           out == IF r.err = nil THEN r.data ELSE <<>>
           front == Len(out) <= Len(all) /\ SubSeq(all, 1, Len(out)) = out
       IN  /\ streamOk' = (streamOk /\ front)
           /\ pending' = IF front THEN SubSeq(all, Len(out) + 1, Len(all)) ELSE all

\* A call r.Read(buf) with len(buf) = k that fetches no line: the reader has
\* ended, or r.buf holds bytes.
ReadNoFetch(k) ==
    /\ rl = NoCall
    /\ nReads < MaxReads
    /\ rstate = readerEnd \/ Len(rbuf) > 0
    /\ ReadDone(k, ReadResult(rbuf, rstate, k, NULL), FALSE, <<>>, NULL, Prompt, Continue)
    /\ UNCHANGED <<Prompt, Continue, slast, rl, historyVars, completionVars, elast, exampleVars>>

\* A call r.Read(buf) with len(buf) = k on a reader that has not ended and
\* whose buffer is empty: getLine picks the prompt, String copies it and
\* enters the native readline(), where the call waits for the line.
ReadEnter(k) ==
    /\ rl = NoCall
    /\ nReads < MaxReads
    /\ rstate # readerEnd
    /\ Len(rbuf) = 0
    /\ rl' = [op |-> "Read", k |-> k, prompt |-> getLinePrompt(rstate),
              p |-> CString(getLinePrompt(rstate)),
              primary |-> Prompt, continue |-> Continue]
    /\ word_breaks' = rl_initialize(word_breaks)
    /\ UNCHANGED <<Prompt, Continue, rbuf, rstate, rlast, nReads, nOkReads, nOkFetch, allBig,
                   pending, streamOk, slast>>
    /\ UNCHANGED <<hookVars, historyVars, elast, exampleVars>>

\* The native readline() returns rp to the waiting Read, which finishes.
ReadReturn(rp) ==
    /\ rl.op = "Read"
    /\ LET g == getLineReturn(rbuf, String(rl.prompt, rp))
           r == ReadAfterFetch(rstate, rl.k, g)
       IN  ReadDone(rl.k, r, rp # NULL, GoString(rp), rp, rl.primary, rl.continue)
    /\ rl' = NoCall
    /\ UNCHANGED <<Prompt, Continue, slast, historyVars, completionVars, elast, exampleVars>>

\* Errors other than io.EOF a line fetch could return.
OtherErrors == {"EINTR", "EIO"}

\* The line fetch of the waiting Read fails with the error e: getLine returns
\* e and leaves r.buf alone.
ReadFetchFails(e) ==
    /\ rl.op = "Read"
    /\ LET g == [buf |-> rbuf, err |-> e, p |-> rl.p]
           r == ReadAfterFetch(rstate, rl.k, g)
       IN  ReadDone(rl.k, r, FALSE, <<>>, NULL, rl.primary, rl.continue)
    /\ rl' = NoCall
    /\ UNCHANGED <<Prompt, Continue, slast, historyVars, completionVars, elast, exampleVars>>

\* A direct call String(prompt): the prompt is copied and the call enters
\* the native readline(), where it waits for the line.
StringEnter(prompt) ==
    /\ rl = NoCall
    /\ rl' = [op |-> "String", prompt |-> prompt, p |-> CString(prompt)]
    /\ word_breaks' = rl_initialize(word_breaks)
    /\ UNCHANGED <<Prompt, Continue, rbuf, rstate, rlast, nReads, nOkReads, nOkFetch, allBig,
                   pending, streamOk, slast>>
    /\ UNCHANGED <<hookVars, historyVars, elast, exampleVars>>

\* The native readline() returns rp to the waiting String, which returns.
StringReturn(rp) ==
    /\ rl.op = "String"
    /\ LET r == String(rl.prompt, rp)
       IN  slast' = [op |-> "String", prompt |-> rl.prompt, rp |-> rp, p |-> r.p,
                     s |-> r.s, err |-> r.err, after |-> r.prompt,
                     mem |-> StringMem(rl.prompt, rp)]
    /\ rl' = NoCall
    /\ UNCHANGED <<Prompt, Continue, rbuf, rstate, rlast, nReads, nOkReads, nOkFetch, allBig,
                   pending, streamOk>>
    /\ UNCHANGED <<historyVars, completionVars, elast, exampleVars>>

\* The caller assigns the package variables Prompt and Continue.
SetPrompts(p, c) ==
    /\ <<p, c>> # <<Prompt, Continue>>
    /\ Prompt' = p
    /\ Continue' = c
    /\ UNCHANGED <<rbuf, rstate, rlast, nReads, nOkReads, nOkFetch, allBig, slast,
                   pending, streamOk, rl>>
    /\ UNCHANGED <<historyVars, completionVars, elast, exampleVars>>

----------------------------------------------------------------------------
(* History adapter *)

\* Lines a caller hands to AddHistory: "", "x", "y", "x\0y" and "y\nx".
HistInputs == {<<>>, <<120>>, <<121>>, <<120, 0, 121>>, <<121, 10, 120>>}

\* Lines a caller hands to AddHistory where the history file is followed:
\* "", "x", "x\r", "#1" and "y\nx".
FileInputs == {<<>>, <<120>>, <<120, 13>>, <<35, 49>>, <<121, 10, 120>>}

\* Texts the user leaves in a recalled history line: "xQ".
EditedLines == {<<120, 81>>}

\* Paths a caller hands to LoadHistory and SaveHistory: "h", a file in a
\* writable directory, and "m/h", a file in a directory that does not exist.
HistoryPath == <<104>>
Paths == {HistoryPath, <<109, 47, 104>>}

\* The ASCII digits.
Digits == 48..57

\* syscall.Errno(e) as an error value.
Errno(e) == "errno " \o ToString(e)

\* libhistory add_history: append a copy of the C string.
add_history(h, cs) == Append(h, cs[1])

\* libhistory history_get: the entry at offset, counted from history_base = 1,
\* or NULL outside the list.
history_get(h, offset) ==
    LET local == offset - 1
    IN  IF local >= Len(h) \/ local < 0
        THEN NULL
        ELSE <<[line |-> <<h[local + 1]>>]>>

\* HistorySize: C.history_length.
HistorySize(h) == Len(h)

\* GetHistory without the translation to the 1-based native index.
GetHistory_NoOffset(h, i) ==
    LET e == history_get(h, i)
    IN  IF e = NULL THEN <<>> ELSE GoString(e[1].line)

\* GetHistory(i) on the history h.
GetHistory(h, i) ==
    LET e == history_get(h, i + 1)
    IN  IF e = NULL THEN <<>> ELSE GoString(e[1].line)

\* AddHistory without the comparison against the last entry.
AddHistoryResult_NoDedup(h, s) == add_history(h, CString(s))

\* AddHistory(s) on the history h: the history after the call.
AddHistoryResult(h, s) ==
    LET n == HistorySize(h)
    IN  IF n = 0 \/ s # GetHistory(h, n - 1)
        THEN add_history(h, CString(s))
        ELSE h

\* ClearHistory removing only the newest entry.
ClearHistoryResult_DropLast(h) ==
    IF h = <<>> THEN h ELSE SubSeq(h, 1, Len(h) - 1)

\* ClearHistory: libhistory clear_history empties the list.
ClearHistoryResult(h) == <<>>

\* libhistory write_history: every entry followed by a newline.
RECURSIVE FileBytes(_)
FileBytes(h) ==
    IF h = <<>> THEN <<>> ELSE Head(h) \o <<10>> \o FileBytes(Tail(h))

\* libhistory HIST_TIMESTAMP_START with '#' as the comment character: the
\* text begins with '#' and a digit.
IsTimestamp(s) == Len(s) >= 2 /\ s[1] = 35 /\ s[2] \in Digits

\* libhistory read_history, one line of the file: cur holds the bytes before
\* the newline.  A carriage return before the newline is cut off; the line
\* is read as a C string; an empty line adds nothing, and neither does a
\* timestamp line when the file has timestamps (ts).
FileEntry(cur, ts) ==
    LET cut == IF cur # <<>> /\ cur[Len(cur)] = 13 THEN SubSeq(cur, 1, Len(cur) - 1) ELSE cur
        s == UpToNul(cut)
    IN  IF s = <<>> \/ (ts /\ IsTimestamp(s)) THEN <<>> ELSE <<s>>

\* libhistory read_history: the entries the file adds.  A line ends at each
\* newline; bytes after the last newline are not a line.
RECURSIVE FileLines(_, _, _)
FileLines(bytes, cur, ts) ==
    IF bytes = <<>> THEN <<>>
    ELSE IF Head(bytes) = 10
         THEN FileEntry(cur, ts) \o FileLines(Tail(bytes), <<>>, ts)
         ELSE FileLines(Tail(bytes), Append(cur, Head(bytes)), ts)

\* libhistory read_history(path): the error code, and the history after it.
\* The file is taken to hold timestamps when it begins with '#' and a digit.
read_history(h, path, file) ==
    IF path # HistoryPath \/ file = NULL
    THEN [e |-> 2, h |-> h]
    ELSE [e |-> 0, h |-> h \o FileLines(file[1], <<>>, IsTimestamp(file[1]))]

\* libhistory write_history(path): the error code, and the file after it.
write_history(h, path, file) ==
    IF path # HistoryPath
    THEN [e |-> 2, file |-> file]
    ELSE [e |-> 0, file |-> <<FileBytes(h)>>]

\* LoadHistory replacing the history by the file's entries.
LoadHistoryResult_Replace(h, path, file) ==
    LET r == read_history(<<>>, CString(path)[1], file)
    IN  IF r.e = 0 THEN [err |-> nil, h |-> r.h]
        ELSE [err |-> Errno(r.e), h |-> h]

\* LoadHistory(path): the error returned and the history after the call.
LoadHistoryResult(h, path, file) ==
    LET r == read_history(h, CString(path)[1], file)
    IN  IF r.e = 0 THEN [err |-> nil, h |-> r.h]
        ELSE [err |-> Errno(r.e), h |-> r.h]

\* SaveHistory appending to an existing file instead of replacing it.
SaveHistoryResult_Append(h, path, file) ==
    LET r == write_history(h, CString(path)[1], file)
    IN  IF r.e = 0
        THEN [err |-> nil, file |-> <<GoString(file) \o r.file[1]>>]
        ELSE [err |-> Errno(r.e), file |-> r.file]

\* SaveHistory(path): the error returned and the file after the call.
SaveHistoryResult(h, path, file) ==
    LET r == write_history(h, CString(path)[1], file)
    IN  IF r.e = 0 THEN [err |-> nil, file |-> r.file]
        ELSE [err |-> Errno(r.e), file |-> r.file]

\* register_readline: using_history leaves an empty history; no file yet.
InitHistory ==
    /\ the_history = <<>>
    /\ hfile = NULL
    /\ hlast = NoCall
    /\ expSize = 0
    /\ onlyAdds = TRUE
    /\ rt = [phase |-> "none"]

AddHistory(s) ==
    /\ Len(AddHistoryResult(the_history, s)) <= MaxHist
    /\ the_history' = AddHistoryResult(the_history, s)
    /\ hlast' = [op |-> "AddHistory", s |-> s, size0 |-> Len(the_history)]
    /\ expSize' = IF the_history # <<>> /\ s = the_history[Len(the_history)]
                  THEN expSize
                  ELSE expSize + 1
    /\ rt' = [phase |-> "none"]
    /\ UNCHANGED <<hfile, onlyAdds, readerVars, completionVars, elast, exampleVars>>

GetHistoryCall(i) ==
    /\ hlast' = [op |-> "GetHistory", i |-> i, s |-> GetHistory(the_history, i),
                 size0 |-> Len(the_history)]
    /\ rt' = [phase |-> "none"]
    /\ UNCHANGED <<the_history, hfile, expSize, onlyAdds, readerVars, completionVars, elast, exampleVars>>

HistorySizeCall ==
    /\ hlast' = [op |-> "HistorySize", n |-> HistorySize(the_history),
                 size0 |-> Len(the_history)]
    /\ rt' = [phase |-> "none"]
    /\ UNCHANGED <<the_history, hfile, expSize, onlyAdds, readerVars, completionVars, elast, exampleVars>>

ClearHistory ==
    /\ the_history' = ClearHistoryResult(the_history)
    /\ hlast' = [op |-> "ClearHistory", size0 |-> Len(the_history)]
    /\ expSize' = 0
    /\ onlyAdds' = TRUE
    /\ rt' = IF rt.phase = "saved"
             THEN [phase |-> "cleared", path |-> rt.path, h |-> rt.h]
             ELSE [phase |-> "none"]
    /\ UNCHANGED <<hfile, readerVars, completionVars, elast, exampleVars>>

LoadHistory(path) ==
    LET r == LoadHistoryResult(the_history, path, hfile)
    IN  /\ Len(r.h) <= MaxHist
        /\ the_history' = r.h
        /\ hlast' = [op |-> "LoadHistory", path |-> path, err |-> r.err,
                     size0 |-> Len(the_history)]
        /\ onlyAdds' = (onlyAdds /\ r.h = the_history)
        /\ rt' = IF rt.phase = "cleared" /\ rt.path = path /\ r.err = nil
                 THEN [phase |-> "loaded", path |-> rt.path, h |-> rt.h]
                 ELSE [phase |-> "none"]
        /\ UNCHANGED <<hfile, expSize, readerVars, completionVars, elast, exampleVars>>

SaveHistory(path) ==
    LET r == SaveHistoryResult(the_history, path, hfile)
    IN  /\ hfile' = r.file
        /\ hlast' = [op |-> "SaveHistory", path |-> path, err |-> r.err,
                     size0 |-> Len(the_history)]
        /\ rt' = IF r.err = nil
                 THEN [phase |-> "saved", path |-> path, h |-> the_history]
                 ELSE [phase |-> "none"]
        /\ UNCHANGED <<the_history, expSize, onlyAdds, readerVars, completionVars, elast, exampleVars>>

\* Inside a readline() call the user recalls the history entry at offset i
\* (1-based), edits it to s and moves to another line: readline keeps the
\* edited text in the entry.
RlEditHistory(i, s) ==
    /\ rl # NoCall
    /\ i \in 1..Len(the_history)
    /\ the_history' = [the_history EXCEPT ![i] = UpToNul(s)]
    /\ hlast' = [op |-> "edit", i |-> i, s |-> s, size0 |-> Len(the_history)]
    /\ onlyAdds' = FALSE
    /\ rt' = [phase |-> "none"]
    /\ UNCHANGED <<hfile, expSize, readerVars, completionVars, elast, exampleVars>>

\* The history adapter with the lines that try the history file.
NextHistoryFile ==
    \/ \E s \in FileInputs : AddHistory(s)
    \/ ClearHistory
    \/ \E path \in Paths : LoadHistory(path)
    \/ \E path \in Paths : SaveHistory(path)

NextHistory ==
    \/ \E s \in HistInputs : AddHistory(s)
    \/ \E i \in 0..(MaxHist + 1) : GetHistoryCall(i)
    \/ HistorySizeCall
    \/ ClearHistory
    \/ \E path \in Paths : LoadHistory(path)
    \/ \E path \in Paths : SaveHistory(path)

----------------------------------------------------------------------------
(* Completion bridge *)

\* Candidates a Completer returns: "foo", "foobar" and "fo\0o".
Candidates == {<<102, 111, 111>>, <<102, 111, 111, 98, 97, 114>>, <<102, 111, 0, 111>>}

\* What one Completer invocation returns (nil is the empty sequence).
CandidateLists == UNION {[1..n -> Candidates] : n \in 0..MaxCands}

\* _completion_function keeping the old cache when the Completer returns
\* nothing.
CompletionResult_KeepOnEmpty(ents, i, es) ==
    LET ents2 == IF i = 0 /\ Len(es) > 0
                 THEN [j \in 1..Len(es) |-> CString(es[j])]
                 ELSE ents
    IN  [entries |-> ents2,
         invoked |-> (i = 0),
         ret |-> IF i >= Len(ents2) THEN NULL ELSE ents2[i + 1]]

\* _completion_function writing the new candidates over the old cache
\* without resizing it.
CompletionResult_NoResize(ents, i, es) ==
    LET n == IF Len(es) > Len(ents) THEN Len(es) ELSE Len(ents)
        ents2 == IF i = 0
                 THEN [j \in 1..n |-> IF j <= Len(es) THEN CString(es[j]) ELSE ents[j]]
                 ELSE ents
    IN  [entries |-> ents2,
         invoked |-> (i = 0),
         ret |-> IF i >= Len(ents2) THEN NULL ELSE ents2[i + 1]]

\* _completion_function re-invoking the Completer on every call.
CompletionResult_Reinvoke(ents, i, es) ==
    LET ents2 == [j \in 1..Len(es) |-> CString(es[j])]
    IN  [entries |-> ents2,
         invoked |-> TRUE,
         ret |-> IF i >= Len(ents2) THEN NULL ELSE ents2[i + 1]]

\* _completion_function(p, i) with the cache ents; es is what the Completer
\* returns if this call invokes it.
CompletionResult(ents, i, es) ==
    LET ents2 == IF i = 0 THEN [j \in 1..Len(es) |-> CString(es[j])] ELSE ents
    IN  [entries |-> ents2,
         invoked |-> (i = 0),
         ret |-> IF i >= Len(ents2) THEN NULL ELSE ents2[i + 1]]

\* Word-break sets a caller hands to SetWordBreaks: "", " " and " \0-".
WordBreakInputs == {<<>>, <<32>>, <<32, 0, 45>>}

\* What reading a string through a pointer to freed memory can give: the
\* bytes that were there (old), nothing, or other bytes.
DanglingReads(old) == {old, <<>>, <<139, 250>>}

\* Who holds the strings behind entries after _completion_function(i)
\* returned.  own is the holder of each string before the call: "go" while
\* only entries points to it, "readline" once it has been returned to
\* readline, "freed" once readline has freed it.  A call that invokes the
\* Completer (alloc) allocates new strings; the string returned goes to
\* readline; when nil is returned readline has its candidates and frees them
\* when the completion is done.
ownerAfter(own, ents2, i, alloc) ==
    LET own2 == IF alloc THEN [j \in 1..Len(ents2) |-> "go"] ELSE own
    IN  IF i >= Len(ents2)
        THEN [j \in 1..Len(own2) |-> IF own2[j] = "readline" THEN "freed" ELSE own2[j]]
        ELSE [own2 EXCEPT ![i + 1] = "readline"]

\* No candidates cached, no completion call made, the native defaults.
InitCompletion ==
    /\ entries = <<>>
    /\ owner = <<>>
    /\ heap = "ok"
    /\ suppress_append = 0
    /\ word_breaks = NULL
    /\ clast = NoCall
    /\ curEs = <<>>
    /\ reqInvokes = 0
    /\ reqNext = -1
    /\ prevEs = <<>>

\* Who holds the string _completion_function(i) returns, before the call:
\* "none" when it returns nil.
heldBefore(own, ents2, i, alloc) ==
    IF i >= Len(ents2) THEN "none"
    ELSE IF alloc THEN "go"
    ELSE own[i + 1]

\* What the pointer _completion_function(i) returns can be read as.
CompletionReads(ents, own, i, es) ==
    LET r == CompletionResult(ents, i, es)
        held == heldBefore(own, r.entries, i, r.invoked)
    IN  IF held = "none" THEN {<<>>}
        ELSE IF held = "freed" THEN DanglingReads(r.ret[1])
        ELSE {r.ret[1]}

\* Inside a readline() call the native side calls _completion_function with
\* index i; es is what the Completer returns if this call invokes it.  It
\* sets rl_completion_suppress_append to 0 before the index-0 call of each
\* completion, and the function sets it to 1.  held tells who held the string
\* returned before the call: a string readline still holds is then held
\* twice and will be freed twice, and a string readline has freed reads as g;
\* what the process does after either is not followed.
CompletionCall(i, es, g) ==
    /\ rl # NoCall
    /\ heap = "ok"
    /\ LET r == CompletionResult(entries, i, es)
           held == heldBefore(owner, r.entries, i, r.invoked)
       IN  /\ entries' = r.entries
           /\ owner' = ownerAfter(owner, r.entries, i, r.invoked)
           /\ heap' = IF held \in {"readline", "freed"} THEN "undefined" ELSE "ok"
           /\ clast' = [op |-> "complete", i |-> i, held |-> held,
                        ret |-> IF held = "freed" THEN <<g>> ELSE r.ret]
           /\ reqInvokes' = (IF i = 0 THEN 0 ELSE reqInvokes) + (IF r.invoked THEN 1 ELSE 0)
    /\ suppress_append' = 1
    /\ curEs' = IF i = 0 THEN es ELSE curEs
    /\ prevEs' = IF i = 0 THEN curEs ELSE prevEs
    /\ reqNext' = IF i = 0 THEN 1
                  ELSE IF i = reqNext THEN reqNext + 1
                  ELSE -1
    /\ UNCHANGED <<word_breaks, readerVars, historyVars, elast, exampleVars>>

\* SetWordBreaks(cs).
SetWordBreaks(cs) ==
    /\ word_breaks' = CString(cs)
    /\ UNCHANGED <<hookVars, readerVars, historyVars, elast, exampleVars>>

\* The completion bridge during one readline() call that String waits in.
\* Only an index-0 call invokes the Completer, so the other calls are given
\* no Completer result.
NextCompletion ==
    \/ StringEnter(ExamplePromptArg)
    \/ \E es \in CandidateLists :
          \E g \in CompletionReads(entries, owner, 0, es) : CompletionCall(0, es, g)
    \/ \E i \in 1..MaxIndex :
          \E g \in CompletionReads(entries, owner, i, <<>>) : CompletionCall(i, <<>>, g)
    \/ \E cs \in WordBreakInputs : SetWordBreaks(cs)

----------------------------------------------------------------------------
(* Prompt escaping *)

PromptStartIgnore == 1
PromptEndIgnore   == 2

\* shortEscRegex with its class read as the range from '@' to '_'.
ShortClass_Range == 64..95

\* The class [@-Z\-_] of shortEscRegex: '@' to 'Z', '-' and '_'.
ShortClass == (64..90) \cup {45, 95}

\* csiSuffix, the class [@-~].
SuffixClass == 64..126

\* The class [0-9] of csiParam.
DigitClass == Digits

\* csiPrefix at position i of s: ESC '[' or the two bytes of U+009B.
PrefixAt(s, i) ==
    /\ i + 1 <= Len(s)
    /\ \/ s[i] = 27 /\ s[i + 1] = 91
       \/ s[i] = 194 /\ s[i + 1] = 155

\* [0-9]+ from position j, which holds a digit: the position after the digits.
RECURSIVE DigitsEnd(_, _)
DigitsEnd(s, j) ==
    IF j <= Len(s) /\ s[j] \in DigitClass THEN DigitsEnd(s, j + 1) ELSE j

\* csiParam at position j of s: the position after it, or 0 when none starts
\* there.  A quoted parameter ends at the next quote.
ParamEnd(s, j) ==
    IF j > Len(s) THEN 0
    ELSE IF s[j] \in DigitClass THEN DigitsEnd(s, j)
    ELSE IF s[j] = 34
         THEN LET q == {x \in (j + 1)..Len(s) : s[x] = 34}
              IN  IF q = {} THEN 0
                  ELSE (CHOOSE x \in q : \A y \in q : x <= y) + 1
    ELSE 0

\* (;csiParam)* from position e, just after a parameter: the position after
\* the last parameter taken.
RECURSIVE ParamsEnd(_, _)
ParamsEnd(s, e) ==
    IF e <= Len(s) /\ s[e] = 59 /\ ParamEnd(s, e + 1) # 0
    THEN ParamsEnd(s, ParamEnd(s, e + 1))
    ELSE e

\* escapeSeq at position i of s: the position after the match, or 0 when the
\* regular expression does not match there.
MatchEnd(s, i) ==
    IF i + 1 <= Len(s) /\ s[i] = 27 /\ s[i + 1] \in ShortClass
    THEN i + 2
    ELSE IF PrefixAt(s, i)
    THEN LET e == IF ParamEnd(s, i + 2) # 0
                  THEN ParamsEnd(s, ParamEnd(s, i + 2))
                  ELSE i + 2
         IN  IF e <= Len(s) /\ s[e] \in SuffixClass THEN e + 1 ELSE 0
    ELSE 0

\* ReplaceAllString over s from position i: every leftmost match wrapped in
\* PromptStartIgnore and PromptEndIgnore, every other byte copied.
RECURSIVE ReplaceAllFrom(_, _)
ReplaceAllFrom(s, i) ==
    IF i > Len(s) THEN <<>>
    ELSE IF MatchEnd(s, i) # 0
    THEN <<PromptStartIgnore>> \o SubSeq(s, i, MatchEnd(s, i) - 1) \o <<PromptEndIgnore>>
         \o ReplaceAllFrom(s, MatchEnd(s, i))
    ELSE <<s[i]>> \o ReplaceAllFrom(s, i + 1)

\* EscapePrompt(s).
EscapePrompt(s) == ReplaceAllFrom(s, 1)

\* The pieces generated arguments are made of: ESC, '[', '1', ';', '"', 'm',
\* 'A', the two bytes of U+009B, ESC '[' and ";1".
EscPieces ==
    {<<27>>, <<91>>, <<49>>, <<59>>, <<34>>, <<109>>, <<65>>, <<194, 155>>,
     <<27, 91>>, <<59, 49>>}

RECURSIVE Flatten(_)
Flatten(ps) == IF ps = <<>> THEN <<>> ELSE Head(ps) \o Flatten(Tail(ps))

\* "Command: \x1b[1m", the argument of ExampleEscapePrompt.
ExamplePrompt == <<67, 111, 109, 109, 97, 110, 100, 58, 32, 27, 91, 49, 109>>

\* Arguments handed to EscapePrompt.
EscInputs ==
    {ExamplePrompt}
    \cup {Flatten(ps) : ps \in UNION {[1..n -> EscPieces] : n \in 0..MaxPieces}}

InitEscape == elast = NoCall

\* A call EscapePrompt(s).
EscapeCall(s) ==
    /\ elast' = [op |-> "EscapePrompt", s |-> s, out |-> EscapePrompt(s)]
    /\ UNCHANGED <<readerVars, historyVars, completionVars, exampleVars>>

\* EscapePrompt keeps no state, so one call is followed per behaviour.
NextEscape ==
    /\ elast = NoCall
    /\ \E s \in EscInputs : EscapeCall(s)

----------------------------------------------------------------------------
(* ExampleCleanup: interrupting a blocked String *)

\* Cleanup: the native calls it makes, in order.
Cleanup == <<"rl_free_line_state", "rl_cleanup_after_signal">>

\* The worker closing done before it assigns line and err.
WorkerOrder_CloseFirst == <<"close", "assign">>

\* The worker's statements after String returns, in program order:
\* line, err = ...; close(done).
WorkerOrder == <<"assign", "close">>

InitExample ==
    /\ mpc = "notify"
    /\ wpc = "none"
    /\ wdone = 0
    /\ wres = [s |-> <<>>, err |-> nil]
    /\ notified = FALSE
    /\ CatchSigint = TRUE
    /\ sigint = 0
    /\ done = FALSE
    /\ lineVar = <<>>
    /\ errVar = nil
    /\ seen = <<>>
    /\ calls = <<>>
    /\ exitCode = -1

\* The process runs until os.Exit or until the signal's default action ends it.
Running == mpc \notin {"exited", "killed"}

\* sigint := make(chan os.Signal, 1); signal.Notify(sigint, syscall.SIGINT)
MainNotify ==
    /\ mpc = "notify"
    /\ notified' = TRUE
    /\ mpc' = "catch"
    /\ UNCHANGED <<wpc, wdone, wres, CatchSigint, sigint, done, lineVar, errVar, seen, calls, exitCode>>
    /\ UNCHANGED <<readerVars, historyVars, completionVars, elast>>

\* readline.CatchSigint = false
MainSetCatch ==
    /\ mpc = "catch"
    /\ CatchSigint' = FALSE
    /\ mpc' = "go"
    /\ UNCHANGED <<wpc, wdone, wres, notified, sigint, done, lineVar, errVar, seen, calls, exitCode>>
    /\ UNCHANGED <<readerVars, historyVars, completionVars, elast>>

\* var line, err; done := make(chan struct{}); go func() {...}()
MainGo ==
    /\ mpc = "go"
    /\ wpc' = "ready"
    /\ mpc' = "select"
    /\ UNCHANGED <<wdone, wres, notified, CatchSigint, sigint, done, lineVar, errVar, seen, calls,
                   exitCode>>
    /\ UNCHANGED <<readerVars, historyVars, completionVars, elast>>

\* select, case <-sigint: taken when the channel holds a signal.
MainSelectSigint ==
    /\ mpc = "select"
    /\ sigint = 1
    /\ sigint' = 0
    /\ mpc' = "interrupted"
    /\ UNCHANGED <<wpc, wdone, wres, notified, CatchSigint, done, lineVar, errVar, seen, calls,
                   exitCode>>
    /\ UNCHANGED <<readerVars, historyVars, completionVars, elast>>

\* select, case <-done: taken when done is closed.
MainSelectDone ==
    /\ mpc = "select"
    /\ done
    /\ mpc' = "print"
    /\ UNCHANGED <<wpc, wdone, wres, notified, CatchSigint, sigint, done, lineVar, errVar, seen, calls,
                   exitCode>>
    /\ UNCHANGED <<readerVars, historyVars, completionVars, elast>>

\* fmt.Println("\nInterrupted"); readline.Cleanup()
MainCleanup ==
    /\ mpc = "interrupted"
    /\ calls' = Append(calls, [by |-> "main", fn |-> "Cleanup", native |-> Cleanup])
    /\ mpc' = "exit"
    /\ UNCHANGED <<wpc, wdone, wres, notified, CatchSigint, sigint, done, lineVar, errVar, seen,
                   exitCode>>
    /\ UNCHANGED <<readerVars, historyVars, completionVars, elast>>

\* os.Exit(1): the process ends, and every goroutine with it.
MainExit ==
    /\ mpc = "exit"
    /\ exitCode' = 1
    /\ mpc' = "exited"
    /\ UNCHANGED <<wpc, wdone, wres, notified, CatchSigint, sigint, done, lineVar, errVar, seen, calls>>
    /\ UNCHANGED <<readerVars, historyVars, completionVars, elast>>

\* fmt.Printf("Read line %s, error %v\n", line, err): reads line and err.
MainPrint ==
    /\ mpc = "print"
    /\ seen' = <<[s |-> lineVar, err |-> errVar]>>
    /\ mpc' = "returned"
    /\ UNCHANGED <<wpc, wdone, wres, notified, CatchSigint, sigint, done, lineVar, errVar, calls,
                   exitCode>>
    /\ UNCHANGED <<readerVars, historyVars, completionVars, elast>>

\* The worker starts: it calls readline.String("> "), which copies the
\* prompt and enters the native readline(), where the worker blocks.
WorkerCall ==
    /\ Running
    /\ wpc = "ready"
    /\ rl = NoCall
    /\ calls' = Append(calls, [by |-> "worker", fn |-> "String", native |-> <<"readline">>])
    /\ wpc' = "inString"
    /\ rl' = [op |-> "String", prompt |-> ExamplePromptArg, p |-> CString(ExamplePromptArg)]
    /\ word_breaks' = rl_initialize(word_breaks)
    /\ UNCHANGED <<mpc, wdone, wres, notified, CatchSigint, sigint, done, lineVar, errVar, seen,
                   exitCode>>
    /\ UNCHANGED <<lineVars, slast, hookVars, historyVars, elast>>

\* The native readline returns rp and String returns to the worker.
WorkerReturn(rp) ==
    /\ Running
    /\ wpc = "inString"
    /\ rl.op = "String"
    /\ LET r == String(rl.prompt, rp)
       IN  /\ wres' = [s |-> r.s, err |-> r.err]
           /\ slast' = [op |-> "String", prompt |-> rl.prompt, rp |-> rp, p |-> r.p,
                         s |-> r.s, err |-> r.err, after |-> r.prompt,
                         mem |-> StringMem(rl.prompt, rp)]
    /\ rl' = NoCall
    /\ wpc' = "body"
    /\ UNCHANGED <<mpc, wdone, notified, CatchSigint, sigint, done, lineVar, errVar, seen, calls,
                   exitCode>>
    /\ UNCHANGED <<lineVars, historyVars, completionVars, elast>>

\* The worker's next statement after String: the assignment to line and
\* err, or close(done); the goroutine ends after the last one.
WorkerStep ==
    /\ Running
    /\ wpc = "body"
    /\ LET stmt == WorkerOrder[wdone + 1]
       IN  /\ lineVar' = IF stmt = "assign" THEN wres.s ELSE lineVar
           /\ errVar' = IF stmt = "assign" THEN wres.err ELSE errVar
           /\ done' = IF stmt = "close" THEN TRUE ELSE done
    /\ wdone' = wdone + 1
    /\ wpc' = IF wdone + 1 = Len(WorkerOrder) THEN "finished" ELSE "body"
    /\ UNCHANGED <<mpc, wres, notified, CatchSigint, sigint, seen, calls, exitCode>>
    /\ UNCHANGED <<readerVars, historyVars, completionVars, elast>>

\* SIGINT reaches the process.  Once Notify has registered the channel the
\* runtime sends without blocking, so a signal is dropped while the channel
\* is full; before that the default action ends the process.
Sigint ==
    /\ Running
    /\ mpc # "returned"
    /\ IF notified
       THEN /\ sigint' = 1
            /\ UNCHANGED mpc
       ELSE /\ mpc' = "killed"
            /\ UNCHANGED sigint
    /\ UNCHANGED <<wpc, wdone, wres, notified, CatchSigint, done, lineVar, errVar, seen, calls,
                   exitCode>>
    /\ UNCHANGED <<readerVars, historyVars, completionVars, elast>>

NextExample ==
    \/ MainNotify
    \/ MainSetCatch
    \/ MainGo
    \/ MainSelectSigint
    \/ MainSelectDone
    \/ MainCleanup
    \/ MainExit
    \/ MainPrint
    \/ WorkerCall
    \/ \E rp \in NativeReturns : WorkerReturn(rp)
    \/ WorkerStep
    \/ Sigint

\* The line reader driven by one goroutine, which assigns Prompt and
\* Continue only while no Read is waiting for its line.
NextReader ==
    \/ \E k \in 0..MaxBuf : ReadNoFetch(k)
    \/ \E k \in 0..MaxBuf : ReadEnter(k)
    \/ \E rp \in NativeReturns : ReadReturn(rp)
    \/ /\ rl = NoCall
       /\ \E p \in PrimaryChoices, c \in ContinueChoices : SetPrompts(p, c)

\* The reader over a line fetch that can also fail with an error other than
\* io.EOF.
NextReaderErr ==
    \/ NextReader
    \/ \E e \in OtherErrors : ReadFetchFails(e)

\* One direct call of String (String keeps no state of its own).  While it
\* waits in readline() the user completes a word, the Completer knowing the
\* one candidate "foo", and edits a recalled history line; the history holds
\* at most the one line "x" added by the program.
NextString ==
    \/ /\ slast = NoCall
       /\ \E prompt \in PromptArgs : StringEnter(prompt)
    \/ \E rp \in NativeReturns : StringReturn(rp)
    \/ \E i \in 0..1 :
          \E g \in CompletionReads(entries, owner, i, <<<<102, 111, 111>>>>) :
             CompletionCall(i, <<<<102, 111, 111>>>>, g)
    \/ /\ the_history = <<>>
       /\ AddHistory(<<120>>)
    \/ \E s \in EditedLines : RlEditHistory(1, s)

Init == InitReader /\ InitHistory /\ InitCompletion /\ InitEscape /\ InitExample

SpecReader == Init /\ [][NextReader]_vars

SpecReaderErr == Init /\ [][NextReaderErr]_vars

SpecString == Init /\ [][NextString]_vars

SpecHistory == Init /\ [][NextHistory]_vars

SpecHistoryFile == Init /\ [][NextHistoryFile]_vars

SpecCompletion == Init /\ [][NextCompletion]_vars

SpecEscape == Init /\ [][NextEscape]_vars

SpecExample == Init /\ [][NextExample]_vars

Next ==
    \/ NextReaderErr
    \/ \E prompt \in PromptArgs : StringEnter(prompt)
    \/ \E rp \in NativeReturns : StringReturn(rp)
    \/ NextHistory
    \/ NextHistoryFile
    \/ \E i \in 1..MaxHist, s \in EditedLines : RlEditHistory(i, s)
    \/ NextCompletion
    \/ NextEscape
    \/ NextExample

Spec == Init /\ [][Next]_vars

----------------------------------------------------------------------------
(* Claims about the line reader and String *)

\* C1: a Read whose line fetch hit end of input leaves the reader Ended, and
\* from Ended every step keeps the state Ended and every Read returns
\* (0, io.EOF) without fetching a line.
C1_EndIsTerminal ==
    [][ /\ (nReads' # nReads /\ rlast'.fetched /\ rlast'.rp = NULL)
              => rstate' = readerEnd
        /\ rstate = readerEnd
              => /\ rstate' = readerEnd
                 /\ rl' = NoCall
                 /\ nReads' # nReads
                      => /\ rlast'.n = 0
                         /\ rlast'.err = EOF
                         /\ ~rlast'.fetched
                         /\ nOkFetch' = nOkFetch ]_vars

\* A Read with a non-empty buffer made after the reader had Ended.
C1_Witness ==
    /\ rstate = readerEnd
    /\ rlast.op = "Read"
    /\ ~rlast.fetched
    /\ rlast.err = EOF
    /\ rlast.k >= 1

\* C2: while every Read has room for its line and the terminator, each
\* successful Read is one fetched line followed by a newline, the successful
\* Reads are as many as the lines fetched (N), and a failing Read signals
\* io.EOF and comes after them (Read N+1 or later).
C2_LinesThenEnd ==
    (rlast.op = "Read" /\ allBig) =>
        /\ nOkReads = nOkFetch
        /\ rlast.err = nil =>
              /\ rlast.fetched
              /\ rlast.data = GoString(rlast.rp) \o <<10>>
        /\ rlast.err # nil =>
              /\ rlast.err = EOF
              /\ nReads > nOkFetch

\* C3: a Read returns zero bytes and a nil error only for a caller buffer of
\* length zero.
C3_ZeroOnlyForEmptyBuffer ==
    (rlast.op = "Read" /\ rlast.n = 0 /\ rlast.err = nil) => rlast.k = 0

\* C4: the reader's first fetch is issued with Prompt, every fetch after a
\* successful one with Continue and not with Prompt.
C4_PromptSelection ==
    (rlast.op = "Read" /\ rlast.fetched) =>
        /\ rlast.okFetch0 = 0 => rlast.p = CString(rlast.primary)
        /\ rlast.okFetch0 >= 1 =>
              /\ rlast.p = CString(rlast.continue)
              /\ rlast.p # CString(rlast.primary)

\* A third fetch, after two lines, that returned a line.
C4_Witness ==
    /\ rlast.op = "Read"
    /\ rlast.fetched
    /\ rlast.okFetch0 >= 2
    /\ rlast.rp # NULL

\* C10: String returns the native line and nil for a non-null pointer, the
\* empty string and io.EOF for a null pointer, nothing else, and the caller's
\* prompt is what it was.
C10_StringContract ==
    slast.op = "String" =>
        /\ slast.rp # NULL => (slast.s = slast.rp[1] /\ slast.err = nil)
        /\ slast.rp = NULL => (slast.s = <<>> /\ slast.err = EOF)
        /\ slast.err \in {nil, EOF}
        /\ slast.after = slast.prompt

\* String called with a non-empty prompt at end of input.
C10_Witness ==
    /\ slast.op = "String"
    /\ slast.rp = NULL
    /\ slast.err = EOF
    /\ Len(slast.prompt) > 0

\* C16: a Read copies the first min(len(buf), len(r.buf)) bytes of r.buf and
\* keeps the rest; it fetches a line only when r.buf is empty; and the bytes
\* handed out so far, in order, are a front part of the lines buffered so
\* far, in fetch order: each successful Read handed out the front of the
\* bytes fetched and not yet handed out, and r.buf holds exactly the others.
C16_ByteStreamFidelity ==
    /\ streamOk
    /\ pending = rbuf
    /\ rlast.op = "Read" =>
          LET src == IF rlast.fetched THEN GoString(rlast.rp) ELSE rlast.buf0
          IN  /\ rlast.fetched => rlast.buf0 = <<>>
              /\ (~rlast.fetched /\ rlast.state0 # readerEnd) => rlast.buf0 # <<>>
              /\ rlast.err = nil =>
                    /\ rlast.n = (IF rlast.k < Len(src) THEN rlast.k ELSE Len(src))
                    /\ rlast.data = SubSeq(src, 1, rlast.n)

\* A two-byte line was handed out over two Reads of one byte, and a new line
\* was fetched by the Read after them.
C16_Witness ==
    /\ rlast.op = "Read"
    /\ rlast.fetched
    /\ rlast.okFetch0 = 1
    /\ nReads = 3
    /\ nOkReads = 3
    /\ ~allBig
    /\ rlast.rp = <<<<98, 97>>>>
    /\ rlast.k = 1
    /\ rbuf = <<97>>

\* C15: a fetch failure other than io.EOF makes Read return (0, that
\* error) and leaves r.state and r.buf as they were; a Read that follows
\* fetches again, from the same state and so with the same prompt; and a
\* Read moves the state to readerEnd only on io.EOF.
C15_OtherErrorKeepsReader ==
    /\ [](rlast.op = "Read" =>
            /\ (rlast.fetched /\ rlast.err \notin {nil, EOF}) =>
                  /\ rlast.n = 0
                  /\ rlast.err \in OtherErrors
                  /\ rstate = rlast.state0
                  /\ rbuf = rlast.buf0
            /\ (rlast.state0 # readerEnd /\ rstate = readerEnd) => rlast.err = EOF)
    /\ [][ (rlast.op = "Read" /\ rlast.err \in OtherErrors /\ nReads' # nReads) =>
              /\ rlast'.fetched
              /\ rlast'.state0 = rlast.state0
              /\ (rlast'.primary = rlast.primary /\ rlast'.continue = rlast.continue)
                    => rlast'.p = rlast.p ]_vars

\* After a line was read, a fetch failed with an error other than io.EOF.
C15_Witness ==
    /\ rlast.op = "Read"
    /\ rlast.fetched
    /\ rlast.err \in OtherErrors
    /\ rlast.state0 = readerContinue
    /\ rlast.okFetch0 = 1
    /\ rstate = readerContinue

\* C19: Read returns n with 0 <= n <= len(buf); with a non-nil error n is 0
\* and r.buf is what it was; with a nil error r.buf is the buffer the call
\* copied from (the fetched line after a fetch) less its first n bytes.
C19_ReadResultBounds ==
    rlast.op = "Read" =>
        LET src == IF rlast.fetched THEN GoString(rlast.rp) ELSE rlast.buf0
        IN  /\ 0 <= rlast.n
            /\ rlast.n <= rlast.k
            /\ rlast.err # nil => (rlast.n = 0 /\ rbuf = rlast.buf0)
            /\ rlast.err = nil =>
                  /\ Len(rlast.data) = rlast.n
                  /\ Len(rbuf) = Len(src) - rlast.n
                  /\ rbuf = SubSeq(src, rlast.n + 1, Len(src))

\* A Read took one byte of a two-byte line and kept the other.
C19_Witness ==
    /\ rlast.op = "Read"
    /\ rlast.err = nil
    /\ rlast.fetched
    /\ rlast.k = 1
    /\ rlast.n = 1
    /\ Len(rbuf) = 1

\* The positions of event e in the memory trace m.
MemAt(m, e) == {i \in 1..Len(m) : m[i] = e}

\* Allocation a is made once, released once, and every use of it lies
\* between the two.
MemClean(m, a) ==
    /\ Cardinality(MemAt(m, <<"malloc", a>>)) = 1
    /\ Cardinality(MemAt(m, <<"free", a>>)) = 1
    /\ \A i \in 1..Len(m) :
          (m[i][2] = a /\ m[i][1] \in {"read", "copy"}) =>
              /\ \E j \in MemAt(m, <<"malloc", a>>) : j < i
              /\ \A j \in MemAt(m, <<"free", a>>) : i < j

\* C11: on every path through String the prompt copy is released exactly
\* once; a non-null line is released exactly once, after it was copied; a
\* null line is never released; nothing is live or freed twice on return.
C11_NativeLifetime ==
    slast.op = "String" =>
        /\ MemClean(slast.mem, "p")
        /\ slast.rp # NULL =>
              /\ MemClean(slast.mem, "rp")
              /\ MemAt(slast.mem, <<"copy", "rp">>) # {}
        /\ slast.rp = NULL =>
              \A i \in 1..Len(slast.mem) : slast.mem[i][2] # "rp"

\* String returned at end of input, having allocated and released the
\* prompt copy.
C11_Witness ==
    /\ slast.op = "String"
    /\ slast.rp = NULL
    /\ slast.err = EOF
    /\ MemAt(slast.mem, <<"free", "p">>) # {}

----------------------------------------------------------------------------
(* Claims about the history adapter *)

\* C6: while the history has been built from empty by AddHistory alone,
\* HistorySize() is the number of AddHistory calls less those whose line was
\* byte-identical to the entry last at the time of the call.
C6_DedupOnAppend ==
    onlyAdds => HistorySize(the_history) = expSize

\* AddHistory("x"), AddHistory("y"), AddHistory("x") kept three entries, and
\* a further AddHistory("x") was suppressed.
C6_Witness ==
    /\ onlyAdds
    /\ the_history = <<<<120>>, <<121>>, <<120>>>>
    /\ hlast.op = "AddHistory"
    /\ hlast.s = <<120>>
    /\ hlast.size0 = 3

\* C7: GetHistory(i) returns the i-th entry in append order (0-based) for
\* i < HistorySize(), and the empty string for every i >= HistorySize().
C7_GetHistoryIndexing ==
    hlast.op = "GetHistory" =>
        hlast.s = IF hlast.i < HistorySize(the_history)
                  THEN the_history[hlast.i + 1]
                  ELSE <<>>

\* GetHistory(1) returned the second of two different entries.
C7_Witness ==
    /\ hlast.op = "GetHistory"
    /\ hlast.i = 1
    /\ Len(the_history) >= 2
    /\ the_history[1] # the_history[2]
    /\ hlast.s = the_history[2]
    /\ hlast.s # <<>>

\* C8: after ClearHistory(), HistorySize() is 0 and GetHistory(i) is the
\* empty string for every index i that was valid before.
C8_ClearEmpties ==
    hlast.op = "ClearHistory" =>
        /\ HistorySize(the_history) = 0
        /\ \A i \in 0..(hlast.size0 - 1) : GetHistory(the_history, i) = <<>>

\* ClearHistory() was called on a history of at least two entries.
C8_Witness ==
    /\ hlast.op = "ClearHistory"
    /\ hlast.size0 >= 2

\* C9: no step other than ClearHistory makes the history shorter.
C9_LengthMonotone ==
    [][ hlast'.op # "ClearHistory"
          => HistorySize(the_history') >= HistorySize(the_history) ]_vars

\* LoadHistory succeeded on a non-empty history and made it longer.
C9_Witness ==
    /\ hlast.op = "LoadHistory"
    /\ hlast.err = nil
    /\ hlast.size0 >= 1
    /\ Len(the_history) > hlast.size0

\* The entry survives the history file: it is not empty, holds no newline
\* and does not end in a carriage return.
FileSafe(e) == e # <<>> /\ e[Len(e)] # 13 /\ \A i \in 1..Len(e) : e[i] # 10

\* The entries survive the history file: each of them does, and the first
\* does not begin with '#' and a digit.
AllFileSafe(h) ==
    /\ \A j \in 1..Len(h) : FileSafe(h[j])
    /\ h # <<>> => ~(Len(h[1]) >= 2 /\ h[1][1] = 35 /\ h[1][2] \in 48..57)

\* C13 as claimed: after SaveHistory(path) succeeded, ClearHistory() and
\* LoadHistory(path) succeeded, HistorySize() is the number of entries saved
\* and GetHistory(i) is the i-th entry saved, whatever the entries.
C13_RoundTripAnyEntries ==
    rt.phase = "loaded" =>
        /\ HistorySize(the_history) = Len(rt.h)
        /\ \A i \in 0..(Len(rt.h) - 1) : GetHistory(the_history, i) = rt.h[i + 1]

\* C13 (amended): the round trip restores the size and every entry when
\* every saved entry is non-empty, holds no newline and does not end in a
\* carriage return, and the first one does not begin with '#' and a digit.
C13_RoundTrip ==
    (rt.phase = "loaded" /\ AllFileSafe(rt.h)) =>
        /\ HistorySize(the_history) = Len(rt.h)
        /\ \A i \in 0..(Len(rt.h) - 1) : GetHistory(the_history, i) = rt.h[i + 1]

\* Three entries "x", "#1", "x" were saved, cleared and loaded back.
C13_Witness ==
    /\ rt.phase = "loaded"
    /\ rt.h = <<<<120>>, <<35, 49>>, <<120>>>>
    /\ the_history = rt.h
    /\ hlast.op = "LoadHistory"
    /\ hlast.size0 = 0

----------------------------------------------------------------------------
(* Claims about the completion bridge *)

\* C5: in a request pulled with indices 0, 1, 2, ... in order, the Completer
\* has been invoked exactly once, the call with index j below the number of
\* candidates returns candidate j, and a call with a larger index returns nil.
C5_PullProtocol ==
    (clast.op = "complete" /\ reqNext = clast.i + 1) =>
        /\ reqInvokes = 1
        /\ clast.ret = IF clast.i < Len(curEs)
                       THEN CString(curEs[clast.i + 1])
                       ELSE NULL

\* The request with candidates "foo", "foobar" pulled at indices 0, 1, 2:
\* index 2 returned nil.
C5_Witness ==
    /\ clast.op = "complete"
    /\ curEs = <<<<102, 111, 111>>, <<102, 111, 111, 98, 97, 114>>>>
    /\ reqNext = 3
    /\ clast.i = 2
    /\ clast.ret = NULL
    /\ reqInvokes = 1

\* C12: when the Completer returned nil or an empty sequence on the index-0
\* call, the cache is empty and that call and every later call of the
\* request return nil.
C12_NothingIsZeroCandidates ==
    (clast.op = "complete" /\ reqInvokes = 1 /\ curEs = <<>>) =>
        /\ entries = <<>>
        /\ clast.ret = NULL

\* After a request with two candidates, a request whose Completer returned
\* nothing was pulled at index 0 and then at index 1.
C12_Witness ==
    /\ clast.op = "complete"
    /\ Len(prevEs) = 2
    /\ curEs = <<>>
    /\ reqInvokes = 1
    /\ reqNext = 2
    /\ clast.i = 1
    /\ clast.ret = NULL

\* C17: every index-0 call invokes the Completer and replaces the whole
\* cache, so a call returns the candidate at its index in the result of the
\* most recent index-0 call, or nil; a request hands each string to readline
\* once, and nothing is said of a string read after readline freed it.
C17_CacheReplaced ==
    clast.op = "complete" =>
        /\ clast.i = 0 => reqInvokes = 1
        /\ Len(entries) = Len(curEs)
        /\ Len(owner) = Len(entries)
        /\ \A j \in 1..Len(entries) : entries[j] = CString(curEs[j])
        /\ clast.i >= Len(curEs) => clast.ret = NULL
        /\ (clast.i < Len(curEs) /\ clast.held # "freed")
              => clast.ret = CString(curEs[clast.i + 1])
        /\ (clast.i < Len(curEs) /\ reqNext = clast.i + 1) => clast.held = "go"

\* A request of one candidate followed a request of two, and index 1 of the
\* new request returned nil.
C17_Witness ==
    /\ clast.op = "complete"
    /\ Len(prevEs) = 2
    /\ Len(curEs) = 1
    /\ clast.i = 1
    /\ clast.ret = NULL

----------------------------------------------------------------------------
(* Claims about prompt escaping *)

\* A parameter of a CSI sequence: digits, or a quoted string without quotes
\* inside.
IsParam(x) ==
    \/ Len(x) >= 1 /\ \A i \in 1..Len(x) : x[i] \in 48..57
    \/ /\ Len(x) >= 2
       /\ x[1] = 34
       /\ x[Len(x)] = 34
       /\ \A i \in 2..(Len(x) - 1) : x[i] # 34

\* Parameters separated by semicolons.
RECURSIVE IsParams(_)
IsParams(x) ==
    \E k \in 1..Len(x) :
        /\ IsParam(SubSeq(x, 1, k))
        /\ \/ k = Len(x)
           \/ /\ k + 1 < Len(x)
              /\ x[k + 1] = 59
              /\ IsParams(SubSeq(x, k + 2, Len(x)))

\* x is an ANSI escape sequence: ESC and one of '@'..'Z', '-', '_', or a CSI
\* introducer, optional parameters and a final byte '@'..'~'.
IsEscapeSeq(x) ==
    \/ Len(x) = 2 /\ x[1] = 27 /\ x[2] \in (64..90) \cup {45, 95}
    \/ /\ Len(x) >= 3
       /\ <<x[1], x[2]>> \in {<<27, 91>>, <<194, 155>>}
       /\ x[Len(x)] \in 64..126
       /\ Len(x) = 3 \/ IsParams(SubSeq(x, 3, Len(x) - 1))

IsMarker(b) == b \in {1, 2}

\* The wrapped regions of out: <<a, b>> with the start marker at a and the
\* next end marker at b.
Wrapped(out) ==
    {w \in (1..Len(out)) \X (1..Len(out)) :
        /\ w[1] < w[2]
        /\ out[w[1]] = 1
        /\ out[w[2]] = 2
        /\ \A i \in (w[1] + 1)..(w[2] - 1) : ~IsMarker(out[i])}

\* C14: for an argument free of marker bytes, the result without its markers
\* is the argument; every marker belongs to one wrapped region, which holds
\* an escape sequence; every escape sequence of the result lies in a wrapped
\* region; an argument without an escape sequence is returned unchanged; and
\* "Command: \x1b[1m" becomes "Command: " and the wrapped "\x1b[1m".
C14_WrapsEscapeSequences ==
    elast.op = "EscapePrompt" =>
        LET s == elast.s
            out == elast.out
            W == Wrapped(out)
        IN  /\ SelectSeq(out, LAMBDA b : ~IsMarker(b)) = s
            /\ \A i \in 1..Len(out) :
                  IsMarker(out[i]) => \E w \in W : i \in {w[1], w[2]}
            /\ \A w \in W : IsEscapeSeq(SubSeq(out, w[1] + 1, w[2] - 1))
            /\ \A a \in 1..Len(out) : \A b \in (a + 1)..Len(out) :
                  IsEscapeSeq(SubSeq(out, a, b)) =>
                      \E w \in W : w[1] < a /\ b < w[2]
            /\ (\A a \in 1..Len(s) : \A b \in (a + 1)..Len(s) :
                    ~IsEscapeSeq(SubSeq(s, a, b))) => out = s
            /\ s = ExamplePrompt =>
                  out = SubSeq(s, 1, 9) \o <<1, 27, 91, 49, 109, 2>>

\* EscapePrompt("Command: \x1b[1m") was called and wrapped one region.
C14_Witness ==
    /\ elast.op = "EscapePrompt"
    /\ elast.s = ExamplePrompt
    /\ Cardinality(Wrapped(elast.out)) = 1

----------------------------------------------------------------------------
(* Claims about ExampleCleanup *)

\* The main goroutine is on the done branch of the select, or past it.
OnDonePath == mpc \in {"print", "returned"}

\* The main goroutine is on the interrupt branch of the select, or past it.
OnInterruptPath == mpc \in {"interrupted", "exit", "exited"}

\* The calls the main goroutine has made into the package, in order.
MainCalls == SelectSeq(calls, LAMBDA c : c.by = "main")

\* The main goroutine reads line and err only after the worker assigned
\* them and closed done, and prints what String returned to the worker.
ReadAfterWrite ==
    /\ OnDonePath => (done /\ wpc = "finished" /\ lineVar = wres.s /\ errVar = wres.err)
    /\ seen # <<>> => (mpc = "returned" /\ seen = <<[s |-> wres.s, err |-> wres.err]>>)

\* On the interrupt branch line and err are never read, Cleanup is the only
\* call the main goroutine makes into the package, and it is made once,
\* before os.Exit.
CleanupOnceBeforeExit ==
    /\ OnInterruptPath => seen = <<>>
    /\ mpc = "interrupted" => MainCalls = <<>>
    /\ mpc \in {"exit", "exited"} =>
          (Len(MainCalls) = 1 /\ MainCalls[1].fn = "Cleanup" /\ MainCalls[1].native = Cleanup)
    /\ OnDonePath => MainCalls = <<>>
    /\ exitCode # -1 <=> mpc = "exited"

\* C18 as stated: in every interleaving the main goroutine reads line and
\* err only after the worker wrote them and closed done; on the interrupt
\* path Cleanup is called exactly once before exit, line and err are never
\* read, and the abandoned worker is left blocked in String.
C18_WorkerLeftBlocked ==
    /\ ReadAfterWrite
    /\ CleanupOnceBeforeExit
    /\ mpc = "exited" => wpc = "inString"

\* C18, amended: in every interleaving the main goroutine reads line and
\* err only after the worker wrote them and closed done; on the interrupt
\* path Cleanup is called exactly once before exit, line and err are never
\* read, and the main goroutine neither waits for the worker nor stops it:
\* its steps leave the worker where it is (blocked in String, not yet in
\* String, or already back from it), and the worker runs no further once
\* the process has exited.
C18_InterruptedRead ==
    /\ [](ReadAfterWrite /\ CleanupOnceBeforeExit)
    /\ [][ (OnInterruptPath' /\ mpc' # mpc) => UNCHANGED <<wpc, wdone, wres, done, lineVar, errVar>> ]_vars
    /\ [][ mpc = "exited" => UNCHANGED <<wpc, wdone, wres, done, lineVar, errVar, calls>> ]_vars

\* The interrupt arrived while the worker was blocked in String, and the
\* process exited after Cleanup with the worker still blocked.
C18_Witness ==
    /\ mpc = "exited"
    /\ exitCode = 1
    /\ wpc = "inString"
    /\ Len(calls) = 2
    /\ calls[1].fn = "String"
    /\ calls[2].fn = "Cleanup"
    /\ seen = <<>>
    /\ ~done

============================================================================
